---- MODULE Spec2Model ----
(***************************************************************************)
(* MiniGraphDB (src/mgdb.py): an in-memory directed property graph with    *)
(* breadth-first / depth-first traversal and loop detection.               *)
(*                                                                         *)
(* self.nodes is a dict  name -> node dict.  A node dict holds the user's  *)
(* property keys next to the reserved key "__rels", whose value is the     *)
(* insertion-ordered dict  (relName, dstNode) -> relationship dict.  A     *)
(* relationship dict holds "__src", "__dst", "__weight" next to the user's *)
(* property keys.                                                          *)
(*                                                                         *)
(* A node is modelled as [props, rels]: props is the node dict without a   *)
(* well-formed "__rels" entry, rels is the ordered "__rels" dict as a      *)
(* sequence of [key, bag].  When a merge writes the key "__rels" the       *)
(* relationship dict is lost: props then carries "__rels" and rels is      *)
(* empty (every later use of the node's relationships raises TypeError).   *)
(***************************************************************************)
EXTENDS Integers, Sequences, FiniteSets, TLC

(***************************************************************************)
(* Bounds of the model and the input alphabets.                            *)
(***************************************************************************)
MaxRels == 3
MaxStoreRels == 2
MaxPops == 6
MaxMergeRels == 1

INFINITY == "__INFINITY__"
Names == {"A", "B", INFINITY}
StoreNames == {"A", "B"}
Types == {"1G", "10G"}
StoreTypes == {"10G"}
Algos == {"BFS", "DFS"}
Weights == {1, 10}
None == "<None>"

QueueMaxSize == 10000
DefaultWeight == 1

VARIABLES nodes, result, pc, startNode, endNode, allowRels, hasloop,
          Q, S, visited, path, puts, gets

vars == <<nodes, result, pc, startNode, endNode, allowRels, hasloop,
          Q, S, visited, path, puts, gets>>

searchVars == <<startNode, endNode, allowRels, hasloop, Q, S, visited, path, puts, gets>>

(***************************************************************************)
(* Dictionaries.                                                           *)
(***************************************************************************)
EmptyDict == [k \in {} |-> 0]

\* a wrong merge: a key the dictionary holds keeps its value
MergeBagKeepsOld(bag, props) ==
    [k \in (DOMAIN bag) \cup (DOMAIN props) |->
        IF k \in DOMAIN bag THEN bag[k] ELSE props[k]]

\* for p in props: bag[p] = props[p]
MergeBag(bag, props) ==
    [k \in (DOMAIN bag) \cup (DOMAIN props) |->
        IF k \in DOMAIN props THEN props[k] ELSE bag[k]]

\* a wrong test: only the relationship dict of a node is hidden
IsHiddenRelsOnly(p) == p = "__rels"

\* Only return public properties, double underscored properties are hidden
IsHidden(p) == Len(p) >= 2 /\ SubSeq(p, 1, 2) = "__"

PublicView(bag) == [k \in {p \in DOMAIN bag : ~IsHidden(p)} |-> bag[k]]

\* the props arguments tried: none, a public key with either value, a
\* reserved key
NodePropChoices ==
    {EmptyDict, "mtu" :> 1500, "mtu" :> 9000, "__rels" :> 1500}

RelPropChoices ==
    {EmptyDict, "mtu" :> 1500, "mtu" :> 9000, "__weight" :> 10}

(***************************************************************************)
(* The store.                                                              *)
(***************************************************************************)
\* self.nodes[name]["__rels"] is no longer the relationship dict
Clobbered(db, name) == "__rels" \in DOMAIN db[name].props

RelIndex(rels, key) ==
    IF \E i \in 1..Len(rels) : rels[i].key = key
    THEN CHOOSE i \in 1..Len(rels) : rels[i].key = key
    ELSE 0

HasRel(db, srcNode, key) == RelIndex(db[srcNode].rels, key) # 0

RelCount(db) ==
    LET RECURSIVE Sum(_)
        Sum(ns) == IF ns = {} THEN 0
                   ELSE LET n == CHOOSE x \in ns : TRUE
                        IN Len(db[n].rels) + Sum(ns \ {n})
    IN Sum(DOMAIN db)

\* by how much addRelationship(name, srcNode, dstNode) would grow the store
Grows(db, name, srcNode, dstNode) ==
    IF /\ {srcNode, dstNode} \subseteq DOMAIN db
       /\ ~HasRel(db, srcNode, <<name, dstNode>>)
    THEN 1 ELSE 0

\* self.nodes[srcNode]["__rels"][(name, dstNode)] = rel : a new key is
\* appended, an existing key keeps its position and gets the new value
PutRel(rels, key, bag) ==
    LET i == RelIndex(rels, key)
    IN IF i = 0 THEN Append(rels, [key |-> key, bag |-> bag])
       ELSE [rels EXCEPT ![i] = [key |-> key, bag |-> bag]]

\* the node dict after merging props into it
MergedNode(node, props) ==
    IF "__rels" \in DOMAIN props
    THEN [props |-> MergeBag(node.props, props), rels |-> <<>>]
    ELSE [props |-> MergeBag(node.props, props), rels |-> node.rels]

Returned(op, args, ret) ==
    [op |-> op, args |-> args, status |-> "returned", error |-> "none", ret |-> ret]

Raised(op, args, error) ==
    [op |-> op, args |-> args, status |-> "raised", error |-> error, ret |-> <<>>]

Running(op, args) ==
    [op |-> op, args |-> args, status |-> "running", error |-> "none", ret |-> <<>>]

\* between two calls there is no call to speak of
NoResult ==
    [op |-> "none", args |-> <<>>, status |-> "none", error |-> "none", ret |-> <<>>]

Init ==
    /\ nodes = EmptyDict
    /\ result = NoResult
    /\ pc = "idle"
    /\ startNode = None
    /\ endNode = None
    /\ allowRels = [any |-> TRUE, names |-> {}]
    /\ hasloop = FALSE
    /\ Q = <<>>
    /\ S = <<>>
    /\ visited = EmptyDict
    /\ path = EmptyDict
    /\ puts = [n \in Names |-> 0]
    /\ gets = [n \in Names |-> 0]

\* addNode merging props into a node that already exists before it raises
addNodeMergesFirst(name, props) ==
    /\ pc = "idle"
    /\ IF name \in DOMAIN nodes
       THEN /\ result' = Raised("addNode", <<name, props>>, "NodeAlreadyExists")
            /\ nodes' = [nodes EXCEPT ![name] = MergedNode(@, props)]
       ELSE /\ nodes' = (name :> MergedNode([props |-> EmptyDict, rels |-> <<>>], props)) @@ nodes
            /\ result' = Returned("addNode", <<name, props>>, <<>>)
    /\ pc' = "done"
    /\ UNCHANGED searchVars

\* addNode(name, props): props = EmptyDict stands for props=None and for {}
addNode(name, props) ==
    /\ pc = "idle"
    /\ IF name \in DOMAIN nodes
       THEN /\ result' = Raised("addNode", <<name, props>>, "NodeAlreadyExists")
            /\ UNCHANGED nodes
       ELSE /\ nodes' = (name :> MergedNode([props |-> EmptyDict, rels |-> <<>>], props)) @@ nodes
            /\ result' = Returned("addNode", <<name, props>>, <<>>)
    /\ pc' = "done"
    /\ UNCHANGED searchVars

\* a wrong version: an absent node is created before the error is raised
mergeNodePropertiesCreates(name, props) ==
    /\ pc = "idle"
    /\ IF name \in DOMAIN nodes
       THEN /\ nodes' = [nodes EXCEPT ![name] = MergedNode(@, props)]
            /\ result' = Returned("mergeNodeProperties", <<name, props>>, <<>>)
       ELSE /\ nodes' = (name :> [props |-> props, rels |-> <<>>]) @@ nodes
            /\ result' = Raised("mergeNodeProperties", <<name, props>>, "NodeNotFound")
    /\ pc' = "done"
    /\ UNCHANGED searchVars

mergeNodeProperties(name, props) ==
    /\ pc = "idle"
    /\ IF name \in DOMAIN nodes
       THEN /\ nodes' = [nodes EXCEPT ![name] = MergedNode(@, props)]
            /\ result' = Returned("mergeNodeProperties", <<name, props>>, <<>>)
       ELSE /\ result' = Raised("mergeNodeProperties", <<name, props>>, "NodeNotFound")
            /\ UNCHANGED nodes
    /\ pc' = "done"
    /\ UNCHANGED searchVars

getNodeProps(name) ==
    /\ pc = "idle"
    /\ IF name \in DOMAIN nodes
       THEN result' = Returned("getNodeProps", <<name>>, PublicView(nodes[name].props))
       ELSE result' = Raised("getNodeProps", <<name>>, "NodeNotFound")
    /\ pc' = "done"
    /\ UNCHANGED <<nodes, searchVars>>

\* "name not in self.nodes[srcNode]['__rels']": the keys of "__rels" are
\* (name, dstNode) tuples and name is a string, so the test compares a
\* string with tuples
RelNameNotInRels(db, name, srcNode) ==
    \A i \in 1..Len(db[srcNode].rels) : db[srcNode].rels[i].key # <<name>>

NewRelBag(srcNode, dstNode, weight) ==
    ("__src" :> srcNode) @@ ("__dst" :> dstNode) @@ ("__weight" :> weight)

\* a wrong version: only the source node is looked up
addRelationshipSrcOnly(name, srcNode, dstNode, props, weight) ==
    LET args == <<name, srcNode, dstNode, props, weight>> IN
    /\ pc = "idle"
    /\ IF srcNode \in DOMAIN nodes /\ ~Clobbered(nodes, srcNode)
       THEN /\ nodes' = [nodes EXCEPT ![srcNode].rels =
                   PutRel(@, <<name, dstNode>>,
                          MergeBag(NewRelBag(srcNode, dstNode, weight), props))]
            /\ result' = Returned("addRelationship", args, <<>>)
       ELSE /\ result' = Raised("addRelationship", args, "NodeNotFound")
            /\ UNCHANGED nodes
    /\ pc' = "done"
    /\ UNCHANGED searchVars

addRelationship(name, srcNode, dstNode, props, weight) ==
    LET args == <<name, srcNode, dstNode, props, weight>> IN
    /\ pc = "idle"
    /\ IF {srcNode, dstNode} \subseteq DOMAIN nodes
       THEN IF Clobbered(nodes, srcNode)
            THEN /\ result' = Raised("addRelationship", args, "TypeError")
                 /\ UNCHANGED nodes
            ELSE IF RelNameNotInRels(nodes, name, srcNode)
            THEN /\ nodes' = [nodes EXCEPT ![srcNode].rels =
                        PutRel(@, <<name, dstNode>>,
                               MergeBag(NewRelBag(srcNode, dstNode, weight), props))]
                 /\ result' = Returned("addRelationship", args, <<>>)
            ELSE /\ result' = Raised("addRelationship", args, "RelationshipAlreadyExists")
                 /\ UNCHANGED nodes
       ELSE /\ result' = Raised("addRelationship", args, "NodeNotFound")
            /\ UNCHANGED nodes
    /\ pc' = "done"
    /\ UNCHANGED searchVars

mergeRelProperties(name, srcNode, dstNode, props) ==
    LET args == <<name, srcNode, dstNode, props>> IN
    /\ pc = "idle"
    /\ IF {srcNode, dstNode} \subseteq DOMAIN nodes
       THEN IF Clobbered(nodes, srcNode)
            THEN /\ result' = Raised("mergeRelProperties", args, "TypeError")
                 /\ UNCHANGED nodes
            ELSE IF HasRel(nodes, srcNode, <<name, dstNode>>)
            THEN /\ nodes' = [nodes EXCEPT ![srcNode].rels =
                        [@ EXCEPT ![RelIndex(@, <<name, dstNode>>)].bag = MergeBag(@, props)]]
                 /\ result' = Returned("mergeRelProperties", args, <<>>)
            ELSE /\ result' = Returned("mergeRelProperties", args, <<>>)
                 /\ UNCHANGED nodes
       ELSE /\ result' = Returned("mergeRelProperties", args, <<>>)
            /\ UNCHANGED nodes
    /\ pc' = "done"
    /\ UNCHANGED searchVars

getRelProps(name, srcNode, dstNode) ==
    LET args == <<name, srcNode, dstNode>> IN
    /\ pc = "idle"
    /\ IF {srcNode, dstNode} \subseteq DOMAIN nodes
       THEN IF Clobbered(nodes, srcNode)
            THEN result' = Raised("getRelProps", args, "TypeError")
            ELSE IF HasRel(nodes, srcNode, <<name, dstNode>>)
            THEN result' = Returned("getRelProps", args,
                    PublicView(nodes[srcNode].rels[RelIndex(nodes[srcNode].rels, <<name, dstNode>>)].bag))
            ELSE result' = Raised("getRelProps", args, "RelationshipNotFound")
       ELSE result' = Raised("getRelProps", args, "NodeNotFound")
    /\ pc' = "done"
    /\ UNCHANGED <<nodes, searchVars>>

\* the list of (relName, dstNode) tuples of an existing, well-formed node
RelList(db, name) == [i \in 1..Len(db[name].rels) |-> db[name].rels[i].key]

getRelationships(name) ==
    /\ pc = "idle"
    /\ IF name \in DOMAIN nodes
       THEN IF Clobbered(nodes, name)
            THEN result' = Raised("getRelationships", <<name>>, "TypeError")
            ELSE result' = Returned("getRelationships", <<name>>, RelList(nodes, name))
       ELSE result' = Raised("getRelationships", <<name>>, "NodeNotFound")
    /\ pc' = "done"
    /\ UNCHANGED <<nodes, searchVars>>

(***************************************************************************)
(* The caller is between calls (pc = "idle"), inside a search ("bfs",      *)
(* "dfs", or "blocked" in a put on a full queue), or back from a call with *)
(* its result ("done").                                                    *)
(*                                                                         *)
(* Traversal.  One step is one pass through the body of the while loop:    *)
(* a get from the queue (stack), the whole for loop over the relationships *)
(* of the node, and the loop test that follows.                            *)
(***************************************************************************)
NoFilter == [any |-> TRUE, names |-> {}]

\* the allowRels arguments tried: None and a list of one type
AllowChoices == {NoFilter, [any |-> FALSE, names |-> {"10G"}]}

\* a filter test that lets every relationship name through
AllowedAny(rname, allow) == TRUE

\* allowRels is None or rname in allowRels
Allowed(rname, allow) == allow.any \/ rname \in allow.names

Reverse(s) == [i \in 1..Len(s) |-> s[Len(s) + 1 - i]]

\* the while loop of _getPath: hops appended from endNode back to the node
\* whose parent is None
RECURSIVE PathBack(_, _)
PathBack(cnode, vis) ==
    IF vis[cnode].parent = None THEN <<>>
    ELSE <<<<vis[cnode].parent, vis[cnode].rname, cnode>>>> \o PathBack(vis[cnode].parent, vis)

\* the path as appended, without the final reversal
_getPathUnreversed(node, vis) == PathBack(node, vis)

_getPath(node, vis) == Reverse(PathBack(node, vis))

\* a membership test that only finds the node the search started from
InVisitedStartOnly(adjacent, vis) ==
    adjacent \in DOMAIN vis /\ vis[adjacent].parent = None

\* adjacent in visited
InVisited(adjacent, vis) == adjacent \in DOMAIN vis

\* a loop-back test that forgets to compare startNode with endNode
BackAtStartAnyEnd(adjacent, start, end) == adjacent = start

\* a wrong test: the loop back to the start is taken for another end only
BackAtStartOtherEnd(adjacent, start, end) == adjacent = start /\ start # end

\* adjacent == startNode == endNode
BackAtStart(adjacent, start, end) == adjacent = start /\ start = end

LoopMessage(adjacent) == <<"Path TBD: Found loop around ", adjacent>>

\* the for loop of _traverseBFS over rels[i..], for the dequeued node cnode;
\* st = [Q, visited, puts, state, ret]
RECURSIVE BFSScan(_, _, _, _, _, _, _, _)
BFSScan(rels, i, cnode, start, end, allow, loop, st) ==
    IF i > Len(rels) THEN st
    ELSE
      LET rname == rels[i][1]
          adjacent == rels[i][2]
      IN
      IF ~Allowed(rname, allow)
      THEN BFSScan(rels, i + 1, cnode, start, end, allow, loop, st)
      ELSE IF loop /\ InVisited(adjacent, st.visited)
      THEN [st EXCEPT !.state = "return", !.ret = [found |-> TRUE, path |-> <<LoopMessage(adjacent)>>]]
      ELSE IF ~InVisited(adjacent, st.visited)
      THEN
        LET vis == (adjacent :> [distance |-> st.visited[cnode].distance + 1,
                                 parent |-> cnode, rname |-> rname]) @@ st.visited
        IN
        IF adjacent = end
        THEN [st EXCEPT !.visited = vis, !.state = "return",
                        !.ret = [found |-> TRUE, path |-> _getPath(end, vis)]]
        ELSE IF Len(st.Q) >= QueueMaxSize
        THEN [st EXCEPT !.visited = vis, !.state = "blocked"]
        ELSE BFSScan(rels, i + 1, cnode, start, end, allow, loop,
                     [st EXCEPT !.visited = vis, !.Q = Append(@, adjacent),
                                !.puts[adjacent] = @ + 1])
      ELSE IF BackAtStart(adjacent, start, end)
      THEN [st EXCEPT !.state = "return",
                      !.ret = [found |-> TRUE,
                               path |-> _getPath(cnode, st.visited) \o <<<<cnode, rname, start>>>>]]
      ELSE BFSScan(rels, i + 1, cnode, start, end, allow, loop, st)

\* the for loop of _traverseDFS over rels[i..], for the popped node cnode;
\* st = [S, visited, path, puts, state, ret]
RECURSIVE DFSScan(_, _, _, _, _, _)
DFSScan(rels, i, cnode, end, allow, st) ==
    IF i > Len(rels) THEN st
    ELSE
      LET rname == rels[i][1]
          adjacent == rels[i][2]
          hop == <<cnode, rname, adjacent>>
      IN
      IF ~Allowed(rname, allow)
      THEN DFSScan(rels, i + 1, cnode, end, allow, st)
      ELSE IF adjacent = end /\ Len(st.path[cnode]) > 0
      THEN [st EXCEPT !.state = "return",
                      !.ret = [found |-> TRUE, path |-> Append(st.path[cnode], hop)]]
      ELSE IF adjacent \notin DOMAIN st.visited
      THEN IF Len(st.S) >= QueueMaxSize
           THEN [st EXCEPT !.state = "blocked"]
           ELSE DFSScan(rels, i + 1, cnode, end, allow,
                        [st EXCEPT !.S = Append(@, adjacent),
                                   !.path[adjacent] = Append(st.path[cnode], hop),
                                   !.puts[adjacent] = @ + 1])
      ELSE DFSScan(rels, i + 1, cnode, end, allow, st)

\* the values the search variables have outside a search
SearchIdle ==
    /\ startNode' = None
    /\ endNode' = None
    /\ allowRels' = NoFilter
    /\ hasloop' = FALSE
    /\ Q' = <<>>
    /\ S' = <<>>
    /\ visited' = EmptyDict
    /\ path' = EmptyDict

\* a wrong version: the algorithm is tested before the nodes are looked up
traverseAlgoFirst(start, end, allow, algo) ==
    LET args == <<start, end, allow, algo>> IN
    /\ pc = "idle"
    /\ IF algo \notin {"BFS", "DFS"}
       THEN /\ pc' = "done"
            /\ result' = Raised("traverse", args, "UnknownAlgorithm")
            /\ UNCHANGED searchVars
       ELSE IF ~({start, end} \subseteq DOMAIN nodes)
       THEN /\ pc' = "done"
            /\ result' = Raised("traverse", args, "NodeNotFound")
            /\ UNCHANGED searchVars
       ELSE /\ pc' = IF algo = "BFS" THEN "bfs" ELSE "dfs"
            /\ result' = Running("traverse", args)
            /\ startNode' = start
            /\ endNode' = end
            /\ allowRels' = allow
            /\ hasloop' = FALSE
            /\ Q' = IF algo = "BFS" THEN <<start>> ELSE <<>>
            /\ S' = IF algo = "DFS" THEN <<start>> ELSE <<>>
            /\ visited' = IF algo = "BFS" THEN (start :> [distance |-> 0, parent |-> None])
                           ELSE EmptyDict
            /\ path' = IF algo = "DFS" THEN [n \in Names |-> <<>>] ELSE EmptyDict
            /\ puts' = [n \in Names |-> IF n = start THEN 1 ELSE 0]
            /\ gets' = [n \in Names |-> 0]
    /\ UNCHANGED nodes

\* traverse(startNode, endNode, allowRels, algo): the checks of traverse and
\* the initialisation of _traverseBFS / _traverseDFS up to the while loop
traverse(start, end, allow, algo) ==
    LET args == <<start, end, allow, algo>> IN
    /\ pc = "idle"
    /\ IF {start, end} \subseteq DOMAIN nodes
       THEN IF algo = "BFS"
            THEN /\ pc' = "bfs"
                 /\ result' = Running("traverse", args)
                 /\ startNode' = start
                 /\ endNode' = end
                 /\ allowRels' = allow
                 /\ hasloop' = FALSE
                 /\ Q' = <<start>>
                 /\ visited' = (start :> [distance |-> 0, parent |-> None])
                 /\ puts' = [n \in Names |-> IF n = start THEN 1 ELSE 0]
                 /\ gets' = [n \in Names |-> 0]
                 /\ UNCHANGED <<S, path>>
            ELSE IF algo = "DFS"
            THEN /\ pc' = "dfs"
                 /\ result' = Running("traverse", args)
                 /\ startNode' = start
                 /\ endNode' = end
                 /\ allowRels' = allow
                 /\ S' = <<start>>
                 /\ visited' = EmptyDict
                 /\ path' = [n \in Names |-> <<>>]
                 /\ puts' = [n \in Names |-> IF n = start THEN 1 ELSE 0]
                 /\ gets' = [n \in Names |-> 0]
                 /\ UNCHANGED <<Q, hasloop>>
            ELSE /\ pc' = "done"
                 /\ result' = Raised("traverse", args, "UnknownAlgorithm")
                 /\ UNCHANGED searchVars
       ELSE /\ pc' = "done"
            /\ result' = Raised("traverse", args, "NodeNotFound")
            /\ UNCHANGED searchVars
    /\ UNCHANGED nodes

\* hasloop calling _traverseBFS without hasloop=True
hasLoopFlagOff(start) ==
    /\ pc = "idle"
    /\ pc' = "bfs"
    /\ result' = Running("hasloop", <<start>>)
    /\ startNode' = start
    /\ endNode' = INFINITY
    /\ allowRels' = NoFilter
    /\ hasloop' = FALSE
    /\ Q' = <<start>>
    /\ visited' = (start :> [distance |-> 0, parent |-> None])
    /\ puts' = [n \in Names |-> IF n = start THEN 1 ELSE 0]
    /\ gets' = [n \in Names |-> 0]
    /\ UNCHANGED <<nodes, S, path>>

\* a wrong version: the sentinel end node is added to the store
hasLoopAddsSentinel(start) ==
    /\ pc = "idle"
    /\ pc' = "bfs"
    /\ result' = Running("hasloop", <<start>>)
    /\ nodes' = IF INFINITY \in DOMAIN nodes THEN nodes
                ELSE (INFINITY :> [props |-> EmptyDict, rels |-> <<>>]) @@ nodes
    /\ startNode' = start
    /\ endNode' = INFINITY
    /\ allowRels' = NoFilter
    /\ hasloop' = TRUE
    /\ Q' = <<start>>
    /\ visited' = (start :> [distance |-> 0, parent |-> None])
    /\ puts' = [n \in Names |-> IF n = start THEN 1 ELSE 0]
    /\ gets' = [n \in Names |-> 0]
    /\ UNCHANGED <<S, path>>

\* hasloop(startNode): _traverseBFS(startNode, "__INFINITY__", hasloop=True),
\* with no check that startNode exists
hasLoop(start) ==
    /\ pc = "idle"
    /\ pc' = "bfs"
    /\ result' = Running("hasloop", <<start>>)
    /\ startNode' = start
    /\ endNode' = INFINITY
    /\ allowRels' = NoFilter
    /\ hasloop' = TRUE
    /\ Q' = <<start>>
    /\ visited' = (start :> [distance |-> 0, parent |-> None])
    /\ puts' = [n \in Names |-> IF n = start THEN 1 ELSE 0]
    /\ gets' = [n \in Names |-> 0]
    /\ UNCHANGED <<nodes, S, path>>

\* one pass of the while loop of _traverseBFS
BFSStep ==
    /\ pc = "bfs"
    /\ LET cnode == Head(Q) IN
       IF cnode \notin DOMAIN nodes
       THEN \* getRelationships(cnode) raises
            /\ pc' = "done"
            /\ result' = [result EXCEPT !.status = "raised", !.error = "NodeNotFound"]
            /\ gets' = [gets EXCEPT ![cnode] = @ + 1]
            /\ SearchIdle
            /\ UNCHANGED puts
       ELSE IF Clobbered(nodes, cnode)
       THEN /\ pc' = "done"
            /\ result' = [result EXCEPT !.status = "raised", !.error = "TypeError"]
            /\ gets' = [gets EXCEPT ![cnode] = @ + 1]
            /\ SearchIdle
            /\ UNCHANGED puts
       ELSE
         LET st == BFSScan(RelList(nodes, cnode), 1, cnode, startNode, endNode,
                           allowRels, hasloop,
                           [Q |-> Tail(Q), visited |-> visited, puts |-> puts,
                            state |-> "scan", ret |-> <<>>])
         IN
         /\ gets' = [gets EXCEPT ![cnode] = @ + 1]
         /\ puts' = st.puts
         /\ IF st.state = "return"
            THEN /\ pc' = "done"
                 /\ result' = [result EXCEPT !.status = "returned", !.ret = st.ret]
                 /\ SearchIdle
            ELSE IF st.state = "blocked"
            THEN \* Q.put on a full queue never returns
                 /\ pc' = "blocked"
                 /\ Q' = st.Q
                 /\ visited' = st.visited
                 /\ UNCHANGED <<result, startNode, endNode, allowRels, hasloop, S, path>>
            ELSE IF st.Q = <<>>
            THEN \* Node not found
                 /\ pc' = "done"
                 /\ result' = [result EXCEPT !.status = "returned",
                                             !.ret = [found |-> FALSE, path |-> <<>>]]
                 /\ SearchIdle
            ELSE /\ Q' = st.Q
                 /\ visited' = st.visited
                 /\ UNCHANGED <<pc, result, startNode, endNode, allowRels, hasloop, S, path>>
    /\ UNCHANGED nodes

\* "cnode not in S.queue", evaluated after the pop
InStack(cnode, stack) == \E i \in 1..Len(stack) : stack[i] = cnode

Pop(stack) == SubSeq(stack, 1, Len(stack) - 1)

\* first time visiting cnode: visited[cnode] = dict()
MarkVisited(cnode, stack, vis) ==
    IF cnode \notin DOMAIN vis /\ ~InStack(cnode, stack)
    THEN (cnode :> EmptyDict) @@ vis
    ELSE vis

\* one pass of the while loop of _traverseDFS
DFSStep ==
    /\ pc = "dfs"
    /\ LET cnode == S[Len(S)]
           rest == Pop(S)
           st == DFSScan(RelList(nodes, cnode), 1, cnode, endNode, allowRels,
                         [S |-> rest, visited |-> MarkVisited(cnode, rest, visited),
                          path |-> path, puts |-> puts,
                          state |-> "scan", ret |-> <<>>])
       IN
       IF Clobbered(nodes, cnode)
       THEN /\ pc' = "done"
            /\ result' = [result EXCEPT !.status = "raised", !.error = "TypeError"]
            /\ gets' = [gets EXCEPT ![cnode] = @ + 1]
            /\ SearchIdle
            /\ UNCHANGED puts
       ELSE
         /\ gets' = [gets EXCEPT ![cnode] = @ + 1]
         /\ puts' = st.puts
         /\ IF st.state = "return"
            THEN /\ pc' = "done"
                 /\ result' = [result EXCEPT !.status = "returned", !.ret = st.ret]
                 /\ SearchIdle
            ELSE IF st.state = "blocked"
            THEN /\ pc' = "blocked"
                 /\ S' = st.S
                 /\ visited' = st.visited
                 /\ path' = st.path
                 /\ UNCHANGED <<result, startNode, endNode, allowRels, hasloop, Q>>
            ELSE IF st.S = <<>>
            THEN /\ pc' = "done"
                 /\ result' = [result EXCEPT !.status = "returned",
                                             !.ret = [found |-> FALSE, path |-> <<>>]]
                 /\ SearchIdle
            ELSE /\ S' = st.S
                 /\ visited' = st.visited
                 /\ path' = st.path
                 /\ UNCHANGED <<pc, result, startNode, endNode, allowRels, hasloop, Q>>
    /\ UNCHANGED nodes

(***************************************************************************)
(* A whole call as a function of the store: the passes of the loop, one    *)
(* after the other, up to the return or the error.  The outcome is what    *)
(* the caller gets: status, error and returned value.                      *)
(***************************************************************************)
Outcome(status, error, ret) == [status |-> status, error |-> error, ret |-> ret]

\* the while loop of _traverseBFS from queue q and dictionary vis
RECURSIVE BFSLoop(_, _, _, _, _, _, _)
BFSLoop(db, start, end, allow, loop, q, vis) ==
    IF q = <<>> THEN Outcome("returned", "none", [found |-> FALSE, path |-> <<>>])
    ELSE
      LET cnode == Head(q) IN
      IF cnode \notin DOMAIN db THEN Outcome("raised", "NodeNotFound", <<>>)
      ELSE IF Clobbered(db, cnode) THEN Outcome("raised", "TypeError", <<>>)
      ELSE
        LET st == BFSScan(RelList(db, cnode), 1, cnode, start, end, allow, loop,
                          [Q |-> Tail(q), visited |-> vis, puts |-> [n \in Names |-> 0],
                           state |-> "scan", ret |-> <<>>])
        IN IF st.state = "return" THEN Outcome("returned", "none", st.ret)
           ELSE IF st.state = "blocked" THEN Outcome("blocked", "none", <<>>)
           ELSE BFSLoop(db, start, end, allow, loop, st.Q, st.visited)

_traverseBFS(db, start, end, allow, loop) ==
    BFSLoop(db, start, end, allow, loop, <<start>>,
            start :> [distance |-> 0, parent |-> None])

\* the while loop of _traverseDFS from stack s, after pops passes; a search
\* still in its loop after MaxPops passes is left there
RECURSIVE DFSLoop(_, _, _, _, _, _, _)
DFSLoop(db, end, allow, s, vis, pth, pops) ==
    IF s = <<>> THEN Outcome("returned", "none", [found |-> FALSE, path |-> <<>>])
    ELSE IF pops >= MaxPops THEN Outcome("running", "none", <<>>)
    ELSE
      LET cnode == s[Len(s)]
          rest == Pop(s)
      IN
      IF Clobbered(db, cnode) THEN Outcome("raised", "TypeError", <<>>)
      ELSE
        LET st == DFSScan(RelList(db, cnode), 1, cnode, end, allow,
                          [S |-> rest, visited |-> MarkVisited(cnode, rest, vis),
                           path |-> pth, puts |-> [n \in Names |-> 0],
                           state |-> "scan", ret |-> <<>>])
        IN IF st.state = "return" THEN Outcome("returned", "none", st.ret)
           ELSE IF st.state = "blocked" THEN Outcome("blocked", "none", <<>>)
           ELSE DFSLoop(db, end, allow, st.S, st.visited, st.path, pops + 1)

_traverseDFS(db, start, end, allow) ==
    DFSLoop(db, end, allow, <<start>>, EmptyDict, [n \in Names |-> <<>>], 0)

traverseOutcome(db, start, end, allow, algo) ==
    IF {start, end} \subseteq DOMAIN db
    THEN IF algo = "BFS" THEN _traverseBFS(db, start, end, allow, FALSE)
         ELSE IF algo = "DFS" THEN _traverseDFS(db, start, end, allow)
         ELSE Outcome("raised", "UnknownAlgorithm", <<>>)
    ELSE Outcome("raised", "NodeNotFound", <<>>)

hasloopOutcome(db, start) == _traverseBFS(db, start, INFINITY, NoFilter, TRUE)

\* the caller is done with the result of a call and goes on to its next
\* statement
NextStatement ==
    /\ pc = "done"
    /\ pc' = "idle"
    /\ result' = NoResult
    /\ puts' = [n \in Names |-> 0]
    /\ gets' = [n \in Names |-> 0]
    /\ UNCHANGED <<nodes, startNode, endNode, allowRels, hasloop, Q, S, visited, path>>

(***************************************************************************)
(* The store operations alone, with properties and weights.                *)
(***************************************************************************)
StoreNext ==
    \/ \E name \in StoreNames, props \in NodePropChoices : addNode(name, props)
    \/ \E name \in StoreNames, props \in NodePropChoices : mergeNodeProperties(name, props)
    \/ \E name \in StoreNames : getNodeProps(name)
    \/ \E name \in StoreTypes, srcNode \in StoreNames, dstNode \in StoreNames,
          props \in RelPropChoices, weight \in Weights :
            /\ RelCount(nodes) < MaxStoreRels \/ Grows(nodes, name, srcNode, dstNode) = 0
            /\ addRelationship(name, srcNode, dstNode, props, weight)
    \/ \E name \in StoreTypes, srcNode \in StoreNames, dstNode \in StoreNames,
          props \in RelPropChoices : mergeRelProperties(name, srcNode, dstNode, props)
    \/ \E name \in StoreTypes, srcNode \in StoreNames, dstNode \in StoreNames :
          getRelProps(name, srcNode, dstNode)
    \/ \E name \in StoreNames : getRelationships(name)
    \/ NextStatement

StoreSpec == Init /\ [][StoreNext]_vars

(***************************************************************************)
(* Merging over and over into nodes and relationships that were created    *)
(* without properties: two public keys, one of them with two values.       *)
(***************************************************************************)
MergeChoices == {("mtu" :> 1500) @@ ("speed" :> 10), "mtu" :> 9000}

MergeNext ==
    \/ \E name \in StoreNames : addNode(name, EmptyDict)
    \/ \E name \in StoreTypes, srcNode \in StoreNames, dstNode \in StoreNames :
          /\ RelCount(nodes) < MaxMergeRels \/ Grows(nodes, name, srcNode, dstNode) = 0
          /\ addRelationship(name, srcNode, dstNode, EmptyDict, DefaultWeight)
    \/ \E name \in StoreNames, props \in MergeChoices : mergeNodeProperties(name, props)
    \/ \E name \in StoreTypes, srcNode \in StoreNames, dstNode \in StoreNames,
          props \in MergeChoices : mergeRelProperties(name, srcNode, dstNode, props)
    \/ NextStatement

MergeSpec == Init /\ [][MergeNext]_vars

(***************************************************************************)
(* Building a graph with default properties and weights, and searching it. *)
(***************************************************************************)
PopCount == LET RECURSIVE Sum(_)
                Sum(ns) == IF ns = {} THEN 0
                           ELSE LET n == CHOOSE x \in ns : TRUE
                                IN gets[n] + Sum(ns \ {n})
            IN Sum(Names)

Next ==
    \/ \E name \in Names : addNode(name, EmptyDict)
    \/ \E name \in Types, srcNode \in Names, dstNode \in Names :
          /\ RelCount(nodes) < MaxRels \/ Grows(nodes, name, srcNode, dstNode) = 0
          /\ addRelationship(name, srcNode, dstNode, EmptyDict, DefaultWeight)
    \/ \E start \in Names, end \in Names, allow \in AllowChoices, algo \in Algos :
          traverse(start, end, allow, algo)
    \/ \E start \in Names : hasLoop(start)
    \/ BFSStep
    \/ PopCount < MaxPops /\ DFSStep
    \/ NextStatement

Spec == Init /\ [][Next]_vars

(***************************************************************************)
(* Every operation of the class on a small store, failing calls included:  *)
(* absent nodes, absent relationships, an algorithm traverse does not know.*)
(***************************************************************************)
CallNodeProps == {EmptyDict, "mtu" :> 1500, "__rels" :> 1500}

CallRelProps == {EmptyDict, "mtu" :> 1500}

CallAlgos == {"BFS", "DFS", "SPF"}

CallNext ==
    \/ \E name \in StoreNames, props \in CallNodeProps : addNode(name, props)
    \/ \E name \in StoreNames, props \in CallNodeProps : mergeNodeProperties(name, props)
    \/ \E name \in StoreNames : getNodeProps(name)
    \/ \E name \in StoreTypes, srcNode \in StoreNames, dstNode \in StoreNames,
          props \in CallRelProps, weight \in Weights :
            /\ RelCount(nodes) < MaxStoreRels \/ Grows(nodes, name, srcNode, dstNode) = 0
            /\ addRelationship(name, srcNode, dstNode, props, weight)
    \/ \E name \in StoreTypes, srcNode \in StoreNames, dstNode \in StoreNames,
          props \in CallRelProps : mergeRelProperties(name, srcNode, dstNode, props)
    \/ \E name \in StoreTypes, srcNode \in StoreNames, dstNode \in StoreNames :
          getRelProps(name, srcNode, dstNode)
    \/ \E name \in StoreNames : getRelationships(name)
    \/ \E start \in StoreNames, end \in StoreNames, algo \in CallAlgos :
          traverse(start, end, NoFilter, algo)
    \/ \E start \in StoreNames : hasLoop(start)
    \/ BFSStep
    \/ PopCount < MaxPops /\ DFSStep
    \/ NextStatement

CallSpec == Init /\ [][CallNext]_vars

(***************************************************************************)
(* What the graph is, stated without the search code.                      *)
(***************************************************************************)
Permitted(rname, allow) == allow.any \/ rname \in allow.names

\* (src, type, dst) is a relationship of the store on src
IsRelationship(db, hop) ==
    /\ hop[1] \in DOMAIN db
    /\ \E i \in 1..Len(db[hop[1]].rels) : db[hop[1]].rels[i].key = <<hop[2], hop[3]>>

Successors(db, from, allow) ==
    {d \in DOMAIN db : \E s \in from, t \in Types :
        Permitted(t, allow) /\ IsRelationship(db, <<s, t, d>>)}

RECURSIVE HopsFrom(_, _, _, _, _, _)
HopsFrom(db, frontier, seen, end, allow, k) ==
    LET next == Successors(db, frontier, allow) IN
    IF end \in next THEN k + 1
    ELSE IF next \subseteq seen THEN 0
    ELSE HopsFrom(db, next \ seen, seen \cup next, end, allow, k + 1)

\* the least number of hops (one or more) of a permitted path from start to
\* end, 0 if there is none
MinHops(db, start, end, allow) == HopsFrom(db, {start}, {start}, end, allow, 0)

\* a directed cycle can be reached from start
CycleReachable(db, start) ==
    \E n \in DOMAIN db :
        /\ n = start \/ MinHops(db, start, n, NoFilter) > 0
        /\ MinHops(db, n, n, NoFilter) > 0

IsHop(h) == Len(h) = 3

\* path is a chain of permitted relationships of the store from start to end
ValidPath(db, p, start, end, allow) ==
    /\ Len(p) > 0
    /\ \A i \in 1..Len(p) :
          /\ IsHop(p[i])
          /\ IsRelationship(db, p[i])
          /\ Permitted(p[i][2], allow)
    /\ p[1][1] = start
    /\ p[Len(p)][3] = end
    /\ \A i \in 1..(Len(p) - 1) : p[i][3] = p[i + 1][1]

NotFound == [found |-> FALSE, path |-> <<>>]

\* the last call was traverse with this algorithm, on existing nodes, and is over
TraverseOver(algo) ==
    /\ pc = "done"
    /\ result.op = "traverse"
    /\ result.args[4] = algo
    /\ {result.args[1], result.args[2]} \subseteq DOMAIN nodes

TraverseReturned(algo) == TraverseOver(algo) /\ result.status = "returned"

\* the search in progress, or the last one, is a breadth-first one
BFSSearch ==
    \/ result.op = "hasloop"
    \/ result.op = "traverse" /\ result.args[4] = "BFS" /\ result.status # "raised"

DFSSearch == result.op = "traverse" /\ result.args[4] = "DFS" /\ result.status # "raised"

HasLoopReturned ==
    /\ pc = "done"
    /\ result.op = "hasloop"
    /\ result.status = "returned"
    /\ result.args[1] \in DOMAIN nodes

(***************************************************************************)
(* Claims.                                                                 *)
(***************************************************************************)

\* C1: for distinct existing start and end joined by a path of permitted
\* relationships, a breadth-first traverse returns found = true with a path
\* of exactly the least number of hops of such a path.
C1_BFSShortestPath ==
    (/\ TraverseOver("BFS")
     /\ result.args[1] # result.args[2]
     /\ MinHops(nodes, result.args[1], result.args[2], result.args[3]) > 0)
    => /\ result.status = "returned"
       /\ result.ret.found
       /\ Len(result.ret.path) =
            MinHops(nodes, result.args[1], result.args[2], result.args[3])

\* a one-hop result under a filter, where a two-hop permitted path between
\* the same nodes exists as well
C1_Witness ==
    /\ TraverseReturned("BFS")
    /\ result.args[1] # result.args[2]
    /\ ~result.args[3].any
    /\ result.ret.found
    /\ Len(result.ret.path) = 1
    /\ \E m \in DOMAIN nodes \ {result.args[1], result.args[2]} :
          /\ IsRelationship(nodes, <<result.args[1], "10G", m>>)
          /\ IsRelationship(nodes, <<m, "10G", result.args[2]>>)

\* C2: for distinct existing start and end joined by a path of permitted
\* relationships (a single direct relationship included), a depth-first
\* traverse that returns, returns found = true.
C2_DFSFindsPath ==
    (/\ TraverseReturned("DFS")
     /\ result.args[1] # result.args[2]
     /\ MinHops(nodes, result.args[1], result.args[2], result.args[3]) > 0)
    => result.ret.found

\* C3: a traverse that returns found = true returns a non-empty chain of
\* permitted relationships of the store, from start to end.
C3_FoundPathIsValid ==
    \A algo \in Algos :
        (TraverseReturned(algo) /\ result.ret.found)
        => ValidPath(nodes, result.ret.path, result.args[1], result.args[2], result.args[3])

\* a found path of two or more hops under a filter, from a store that also
\* holds a relationship the filter forbids
C3_Witness ==
    /\ TraverseReturned("BFS")
    /\ result.ret.found
    /\ Len(result.ret.path) >= 2
    /\ ~result.args[3].any
    /\ \E n \in DOMAIN nodes, d \in DOMAIN nodes : IsRelationship(nodes, <<n, "1G", d>>)

\* C4: a traverse between existing nodes that no path of permitted
\* relationships joins returns, if it returns, exactly (false, []).
C4_NoPathNotFound ==
    \A algo \in Algos :
        (/\ TraverseReturned(algo)
         /\ MinHops(nodes, result.args[1], result.args[2], result.args[3]) = 0)
        => result.ret = NotFound

\* not found under a filter, where a path of forbidden relationships exists
C4_Witness ==
    /\ TraverseReturned("DFS")
    /\ result.args[1] # result.args[2]
    /\ result.ret = NotFound
    /\ MinHops(nodes, result.args[1], result.args[2], result.args[3]) = 0
    /\ MinHops(nodes, result.args[1], result.args[2], NoFilter) > 0

\* C5: during a depth-first traverse the relationships of any one node are
\* expanded at most once (so the search ends after at most one pass of the
\* loop per node).
C5_DFSExpandsOnce ==
    DFSSearch => \A n \in Names : gets[n] <= 1

C7_SecondAddFails ==
    [][(/\ result'.op = "addRelationship"
        /\ {result'.args[2], result'.args[3]} \subseteq DOMAIN nodes
        /\ HasRel(nodes, result'.args[2], <<result'.args[1], result'.args[3]>>))
       => (result'.error = "RelationshipAlreadyExists" /\ nodes' = nodes)]_vars

\* C8: addNode with a name already in the store fails with NodeAlreadyExists
\* and leaves the store as it was, whatever props is.
C8_AddExistingNodeFails ==
    [][(result'.op = "addNode" /\ result'.args[1] \in DOMAIN nodes)
       => (result'.error = "NodeAlreadyExists" /\ nodes' = nodes)]_vars

\* addNode with props naming the reserved key failed on a node that has a
\* relationship
C8_Witness ==
    /\ result.op = "addNode"
    /\ result.error = "NodeAlreadyExists"
    /\ "__rels" \in DOMAIN result.args[2]
    /\ Len(nodes[result.args[1]].rels) > 0

\* C9: hasLoop from a node from which no directed cycle can be reached
\* returns (false, []) (stated for stores without a node named as the
\* sentinel end node).
C9_NoLoopNotFound ==
    (/\ HasLoopReturned
     /\ INFINITY \notin DOMAIN nodes
     /\ ~CycleReachable(nodes, result.args[1]))
    => result.ret = NotFound

\* C10: hasLoop from a node from which a directed cycle can be reached
\* returns found = true.
C10_LoopFound ==
    (HasLoopReturned /\ CycleReachable(nodes, result.args[1]))
    => result.ret.found

\* hasLoop found a cycle that does not pass through the start node
C10_Witness ==
    /\ HasLoopReturned
    /\ INFINITY \notin DOMAIN nodes
    /\ result.ret.found
    /\ MinHops(nodes, result.args[1], result.args[1], NoFilter) = 0
    /\ CycleReachable(nodes, result.args[1])

\* C11: when hasLoop returns found = true, the returned path is a chain of
\* (src, type, dst) hops from start, each a relationship of the store, whose
\* last hop (cur, relType, adj) ends at a node the search had already
\* visited.
C11_LoopPathIsHops ==
    (HasLoopReturned /\ result.ret.found)
    => LET p == result.ret.path IN
       /\ Len(p) > 0
       /\ \A i \in 1..Len(p) : IsHop(p[i]) /\ IsRelationship(nodes, p[i])
       /\ p[1][1] = result.args[1]
       /\ \A i \in 1..(Len(p) - 1) : p[i][3] = p[i + 1][1]
       /\ \/ p[Len(p)][3] = result.args[1]
          \/ \E i \in 1..(Len(p) - 1) : p[i][3] = p[Len(p)][3]
          \/ MinHops(nodes, result.args[1], p[Len(p)][3], NoFilter) > 0

\* the key begins with the reserved marker
BeginsWithMarker(k) == Len(k) >= 2 /\ SubSeq(k, 1, 1) = "_" /\ SubSeq(k, 2, 2) = "_"

\* the relationship bag a getRelProps call read
BagRead == LET rels == nodes[result.args[2]].rels
           IN rels[RelIndex(rels, <<result.args[1], result.args[3]>>)].bag

\* C12: after any sequence of store operations, with reserved keys among the
\* merged ones, the dictionaries getNodeProps and getRelProps return hold no
\* key that begins with "__", and hold every stored key that does not begin
\* with it, with its stored value.
C12_ViewHidesReserved ==
    /\ (pc = "done" /\ result.op = "getNodeProps" /\ result.status = "returned")
       => LET stored == nodes[result.args[1]].props IN
          /\ \A k \in DOMAIN result.ret : ~BeginsWithMarker(k)
          /\ \A k \in DOMAIN stored :
                ~BeginsWithMarker(k) => (k \in DOMAIN result.ret /\ result.ret[k] = stored[k])
    /\ (pc = "done" /\ result.op = "getRelProps" /\ result.status = "returned")
       => /\ \A k \in DOMAIN result.ret : ~BeginsWithMarker(k)
          /\ \A k \in DOMAIN BagRead :
                ~BeginsWithMarker(k) => (k \in DOMAIN result.ret /\ result.ret[k] = BagRead[k])

\* getRelProps returned the public key of a relationship whose weight was
\* overwritten by a merge of the reserved key "__weight"
C12_Witness ==
    /\ pc = "done"
    /\ result.op = "getRelProps"
    /\ result.status = "returned"
    /\ DOMAIN result.ret = {"mtu"}
    /\ BagRead["__weight"] = 10
    /\ \E n \in DOMAIN nodes : "mtu" \in DOMAIN nodes[n].props

\* the public keys of a dictionary
PublicKeys(bag) == {k \in DOMAIN bag : ~BeginsWithMarker(k)}

\* key k of the dictionary keeps its value in the step, or the step is the
\* merge (operation op on target) that names k and gives k its new value
KeptOrMerged(old, new, k, op, target) ==
    /\ k \in DOMAIN new
    /\ \/ new[k] = old[k]
       \/ /\ result'.op = op
          /\ SubSeq(result'.args, 1, Len(target)) = target
          /\ k \in DOMAIN result'.args[Len(target) + 1]
          /\ new[k] = result'.args[Len(target) + 1][k]

\* C13: nothing is ever deleted.  In every step every node stays, every
\* relationship key (type, dst) of every node stays, and every public
\* property of a node or of a relationship stays with its value, unless the
\* step is a merge naming the key, which gives it the merged value; a
\* repeated addRelationship resets nothing.
C13_NothingDeleted ==
    [][/\ DOMAIN nodes \subseteq DOMAIN nodes'
       /\ \A n \in DOMAIN nodes :
            /\ \A k \in PublicKeys(nodes[n].props) :
                  KeptOrMerged(nodes[n].props, nodes'[n].props, k,
                               "mergeNodeProperties", <<n>>)
            /\ \A i \in 1..Len(nodes[n].rels) :
                  LET key == nodes[n].rels[i].key
                      bag == nodes[n].rels[i].bag
                  IN /\ HasRel(nodes', n, key)
                     /\ \A k \in PublicKeys(bag) :
                           KeptOrMerged(bag, nodes'[n].rels[RelIndex(nodes'[n].rels, key)].bag,
                                        k, "mergeRelProperties", <<key[1], n, key[2]>>)
      ]_vars

\* C14: the destination of every relationship of the store is a node of the
\* store; addRelationship with an absent source or destination fails with
\* NodeNotFound and leaves the store as it was (no relationship and no node
\* is created).
C14_DestinationsExist ==
    [][/\ \A n \in DOMAIN nodes' : \A i \in 1..Len(nodes'[n].rels) :
             nodes'[n].rels[i].key[2] \in DOMAIN nodes'
       /\ (/\ result'.op = "addRelationship"
           /\ ~({result'.args[2], result'.args[3]} \subseteq DOMAIN nodes))
          => (result'.error = "NodeNotFound" /\ nodes' = nodes)
      ]_vars

\* addRelationship failed for an absent destination, from an existing source
\* that has a relationship already
C14_Witness ==
    /\ result.op = "addRelationship"
    /\ result.error = "NodeNotFound"
    /\ result.args[2] \in DOMAIN nodes
    /\ result.args[3] \notin DOMAIN nodes
    /\ Len(nodes[result.args[2]].rels) > 0

\* the view of a dictionary after a merge of props that wins on every key
\* it names and keeps every other key
LastWriteWins(view, props) ==
    [k \in (DOMAIN view) \cup PublicKeys(props) |->
        IF k \in DOMAIN props THEN props[k] ELSE view[k]]

\* C15: merging is last-write-wins per key.  After a merge into a node or
\* into a relationship the property view holds, for every public key the
\* merge names, the value of this merge (whatever an earlier merge gave
\* it), and every other public key with the value it had.
C15_LastWriteWins ==
    [][/\ (result'.op = "mergeNodeProperties" /\ result'.status = "returned")
          => LET n == result'.args[1] IN
             PublicView(nodes'[n].props)
                = LastWriteWins(PublicView(nodes[n].props), result'.args[2])
       /\ (/\ result'.op = "mergeRelProperties"
           /\ result'.status = "returned"
           /\ {result'.args[2], result'.args[3]} \subseteq DOMAIN nodes
           /\ HasRel(nodes, result'.args[2], <<result'.args[1], result'.args[3]>>))
          => LET n == result'.args[2]
                 key == <<result'.args[1], result'.args[3]>>
                 i == RelIndex(nodes[n].rels, key)
             IN /\ HasRel(nodes', n, key)
                /\ PublicView(nodes'[n].rels[RelIndex(nodes'[n].rels, key)].bag)
                     = LastWriteWins(PublicView(nodes[n].rels[i].bag), result'.args[4])
      ]_vars

\* mtu was merged as 1500 together with speed, and then as 9000, into a
\* node and into a relationship of that node: both hold mtu = 9000 and the
\* speed of the first merge
C15_Witness ==
    /\ result.op = "mergeRelProperties"
    /\ result.status = "returned"
    /\ result.args[4] = ("mtu" :> 9000)
    /\ LET n == result.args[2]
           key == <<result.args[1], result.args[3]>>
       IN /\ n \in DOMAIN nodes
          /\ HasRel(nodes, n, key)
          /\ PublicView(nodes[n].rels[RelIndex(nodes[n].rels, key)].bag)
                = ("mtu" :> 9000) @@ ("speed" :> 10)
          /\ PublicView(nodes[n].props) = ("mtu" :> 9000) @@ ("speed" :> 10)

\* C16: mergeRelProperties(type, src, dst, props) with src absent, dst
\* absent, or no relationship (type, dst) on src returns normally and
\* leaves the whole store as it was.
C16_MergeRelSilentNoOp ==
    [][(/\ result'.op = "mergeRelProperties"
        /\ ~(/\ {result'.args[2], result'.args[3]} \subseteq DOMAIN nodes
             /\ HasRel(nodes, result'.args[2], <<result'.args[1], result'.args[3]>>)))
       => (result'.status = "returned" /\ nodes' = nodes)]_vars

\* the errors the operations declare
DeclaredErrors ==
    {"NodeAlreadyExists", "NodeNotFound", "RelationshipAlreadyExists",
     "RelationshipNotFound", "UnknownAlgorithm"}

\* the last call failed with a declared error
FailedDeclared ==
    /\ pc = "done"
    /\ result.status = "raised"
    /\ result.error \in DeclaredErrors

\* the caller is between two calls: whatever the calls made so far, all
\* that is left of them is the store
BetweenCalls ==
    /\ pc = "idle"
    /\ result = NoResult
    /\ startNode = None /\ endNode = None /\ allowRels = NoFilter /\ ~hasloop
    /\ Q = <<>> /\ S = <<>> /\ visited = EmptyDict /\ path = EmptyDict
    /\ \A n \in Names : puts[n] = 0 /\ gets[n] = 0

\* C17: a call that fails with a declared error leaves the store as it was
\* before the call, and the caller goes on from the state the call was made
\* in (between calls, with the same store), so that every later operation
\* behaves as if the failed call had not been made.
C17_FailedCallChangesNothing ==
    [][/\ pc = "idle" => BetweenCalls
       /\ FailedDeclared' => nodes' = nodes
       /\ FailedDeclared => (BetweenCalls' /\ nodes' = nodes)
      ]_vars

\* getRelProps failed with RelationshipNotFound on a store that holds a
\* relationship with a merged property
C17_Witness ==
    /\ FailedDeclared
    /\ result.op = "getRelProps"
    /\ result.error = "RelationshipNotFound"
    /\ \E n \in DOMAIN nodes : \E i \in 1..Len(nodes[n].rels) :
          "mtu" \in DOMAIN nodes[n].rels[i].bag

\* C18: getNodeProps, getRelationships and mergeNodeProperties on an absent
\* node fail with NodeNotFound; getRelProps fails with NodeNotFound if an
\* endpoint is absent and with RelationshipNotFound if both exist and src
\* has no relationship (type, dst); on present targets each of the four
\* returns.
C18_AbsentFailsPresentSucceeds ==
    [][/\ (result'.op \in {"getNodeProps", "getRelationships", "mergeNodeProperties"})
          => IF result'.args[1] \in DOMAIN nodes
             THEN result'.status = "returned"
             ELSE result'.error = "NodeNotFound"
       /\ (result'.op = "getRelProps")
          => IF ~({result'.args[2], result'.args[3]} \subseteq DOMAIN nodes)
             THEN result'.error = "NodeNotFound"
             ELSE IF HasRel(nodes, result'.args[2], <<result'.args[1], result'.args[3]>>)
             THEN result'.status = "returned"
             ELSE result'.error = "RelationshipNotFound"
      ]_vars

\* C19: traverse with start or end absent fails with NodeNotFound, whatever
\* the algorithm; with both present and an algorithm that is neither BFS nor
\* DFS it fails with UnknownAlgorithm.  In both cases the call is over at
\* once without a result and no search has run: nothing was put on a queue
\* or a stack and no node was visited.
C19_TraverseChecksFirst ==
    [][(pc = "idle" /\ result'.op = "traverse")
       => LET start == result'.args[1]
              end == result'.args[2]
              algo == result'.args[4]
              Rejected(error) ==
                  /\ pc' = "done"
                  /\ result'.status = "raised"
                  /\ result'.error = error
                  /\ result'.ret = <<>>
                  /\ Q' = <<>> /\ S' = <<>> /\ visited' = EmptyDict
                  /\ \A n \in Names : puts'[n] = 0 /\ gets'[n] = 0
                  /\ nodes' = nodes
          IN IF ~({start, end} \subseteq DOMAIN nodes) THEN Rejected("NodeNotFound")
             ELSE IF algo \notin {"BFS", "DFS"} THEN Rejected("UnknownAlgorithm")
             ELSE pc' \in {"bfs", "dfs"} /\ result'.status = "running"
      ]_vars

\* traverse failed with UnknownAlgorithm between two nodes of the store that
\* a relationship joins
C19_Witness ==
    /\ pc = "done"
    /\ result.op = "traverse"
    /\ result.error = "UnknownAlgorithm"
    /\ result.args[4] = "SPF"
    /\ result.args[1] # result.args[2]
    /\ IsRelationship(nodes, <<result.args[1], "10G", result.args[2]>>)

\* C20: traverse and hasLoop never change the store.  No step of such a
\* call, from the checks of the arguments through every pass of the search
\* loop to the return or the error, changes the nodes, their properties,
\* their relationships, or the properties and weights of these.
C20_SearchReadsOnly ==
    [][(result'.op \in {"traverse", "hasloop"}) => nodes' = nodes]_vars

\* a depth-first traverse that took two or more passes of its loop returned
\* found, on a store with a property merged into a node and into a
\* relationship
C20_Witness ==
    /\ pc = "done"
    /\ result.op = "traverse"
    /\ result.args[4] = "DFS"
    /\ result.status = "returned"
    /\ result.ret.found
    /\ Len(result.ret.path) >= 2
    /\ \E n \in DOMAIN nodes :
          /\ "mtu" \in DOMAIN nodes[n].props
          /\ \E i \in 1..Len(nodes[n].rels) : "mtu" \in DOMAIN nodes[n].rels[i].bag

\* C21: a breadth-first traverse with start = end returns found = true
\* exactly when a directed cycle of permitted relationships passes through
\* start (a relationship from start to itself is a cycle of one hop); the
\* path is then a chain of permitted relationships from start back to
\* start with the number of hops of a shortest such cycle, and with no such
\* cycle the result is (false, []).
C21_BFSShortestCycle ==
    (TraverseOver("BFS") /\ result.args[1] = result.args[2])
    => LET start == result.args[1]
           allow == result.args[3]
           shortest == MinHops(nodes, start, start, allow)
       IN /\ result.status = "returned"
          /\ IF shortest > 0
             THEN /\ result.ret.found
                  /\ ValidPath(nodes, result.ret.path, start, start, allow)
                  /\ Len(result.ret.path) = shortest
             ELSE result.ret = NotFound

\* a cycle of two permitted hops was found under a filter, from a start
\* node that also has a relationship of a forbidden type to itself
C21_Witness ==
    /\ TraverseReturned("BFS")
    /\ result.args[1] = result.args[2]
    /\ ~result.args[3].any
    /\ result.ret.found
    /\ Len(result.ret.path) = 2
    /\ IsRelationship(nodes, <<result.args[1], "1G", result.args[1]>>)

\* the (type, dst) keys a node of the store holds
KeySet(db, n) == {db[n].rels[i].key : i \in 1..Len(db[n].rels)}

\* the list holds no element twice
NoRepeats(list) == \A i \in 1..Len(list) : \A j \in 1..Len(list) : list[i] = list[j] => i = j

\* C22: getRelationships(n) on an existing node returns every key once, and
\* exactly the pairs (type, dst) for which addRelationship(type, n, dst) was
\* called while n and dst existed: a new node has none, a step adds the pair
\* of such a call to the keys of n, and no step adds or removes another.
C22_RelationshipsAreTheAddedKeys ==
    [][/\ \A n \in DOMAIN nodes' :
             KeySet(nodes', n) =
                (IF n \in DOMAIN nodes THEN KeySet(nodes, n) ELSE {})
                \cup (IF /\ result'.op = "addRelationship"
                         /\ result'.args[2] = n
                         /\ {n, result'.args[3]} \subseteq DOMAIN nodes
                      THEN {<<result'.args[1], result'.args[3]>>} ELSE {})
       /\ (result'.op = "getRelationships" /\ result'.args[1] \in DOMAIN nodes)
          => /\ result'.status = "returned"
             /\ NoRepeats(result'.ret)
             /\ {result'.ret[i] : i \in 1..Len(result'.ret)} = KeySet(nodes, result'.args[1])
      ]_vars

\* the store with the same nodes and the same relationship keys in the same
\* order, without any property and with the default weight everywhere
Plain(db) ==
    [n \in DOMAIN db |->
        [props |-> EmptyDict,
         rels |-> [i \in 1..Len(db[n].rels) |->
                     [key |-> db[n].rels[i].key,
                      bag |-> NewRelBag(n, db[n].rels[i].key[2], DefaultWeight)]]]]

\* what the caller got from the last call
LastOutcome == Outcome(result.status, result.error, result.ret)

\* C23: the result of traverse and of hasLoop does not depend on weights or
\* on properties: every query gives on the store the outcome it gives on
\* the store with the same nodes and relationship keys and no properties
\* (and a search that was run on the store ended with that outcome).
C23_SearchIgnoresProperties ==
    /\ pc = "idle" =>
         /\ \A start \in StoreNames, end \in StoreNames, algo \in Algos :
               traverseOutcome(nodes, start, end, NoFilter, algo)
                 = traverseOutcome(Plain(nodes), start, end, NoFilter, algo)
         /\ \A start \in DOMAIN nodes :
               hasloopOutcome(nodes, start) = hasloopOutcome(Plain(nodes), start)
    /\ (pc = "done" /\ result.op = "traverse") =>
         LastOutcome = traverseOutcome(Plain(nodes), result.args[1], result.args[2],
                                       result.args[3], result.args[4])
    /\ (pc = "done" /\ result.op = "hasloop") =>
         LastOutcome = hasloopOutcome(Plain(nodes), result.args[1])

\* C24: merging properties never changes the topology.  After addNode(name,
\* props) on a new name and after mergeNodeProperties(name, props) on an
\* existing node, whatever keys props has, getRelationships(name) succeeds
\* and returns what it returned before (nothing, for a new node).
C24_MergeKeepsTopology ==
    [][(/\ result'.op \in {"addNode", "mergeNodeProperties"}
        /\ result'.status = "returned")
       => LET name == result'.args[1] IN
          /\ name \in DOMAIN nodes'
          /\ ~Clobbered(nodes', name)
          /\ KeySet(nodes', name) = (IF name \in DOMAIN nodes THEN KeySet(nodes, name) ELSE {})
      ]_vars

\* C25: a path a depth-first traverse returns is simple: no node is the
\* destination of two hops, start is a destination only as the last hop of
\* a query with start = end, and so the path has no more hops than the
\* store has nodes.
C25_DFSPathIsSimple ==
    (TraverseReturned("DFS") /\ result.ret.found)
    => LET p == result.ret.path
           start == result.args[1]
           end == result.args[2]
       IN /\ \A i \in 1..Len(p) : \A j \in 1..Len(p) : p[i][3] = p[j][3] => i = j
          /\ \A i \in 1..Len(p) : p[i][3] = start => (start = end /\ i = Len(p))
          /\ Len(p) <= Cardinality(DOMAIN nodes)

====
